---- MODULE Spec2Model ----
(***************************************************************************)
(* Lifecycle of the database fixtures of the pgmock / testcontainers /     *)
(* pg-boss test suites: the suite-scoped fixture (beforeAll / afterAll),   *)
(* the case-scoped wrappers withMockClient / withContainerClient and the   *)
(* job-queue wrapper withMockClientAndBoss.                                *)
(*                                                                         *)
(* Every call into a dependency (backend start, client connect, client     *)
(* end, backend teardown, queue start/stop) is an await that either        *)
(* resolves or rejects; the outcome is an input of the action.             *)
(***************************************************************************)
EXTENDS Integers, Sequences, FiniteSets, TLC

\* Number of wrapper invocations that may be in flight together.
NumInvocations == 2

Invocations == 1..NumInvocations

\* The three cases of the suite-level describe block, in file order.
Cases == 1..3

VARIABLES
    block,       \* the describe block being run: "suite", "isolated mock",
                 \* "isolated container", "boss"
    concurrent,  \* TRUE when the runner interleaves the cases of the suite block
    dbs,         \* the backends ever provisioned, by handle (index)
    \* ---- suite-level fixture: the describe-scoped `let mock`, `let client`
    mock,        \* handle of the suite backend, 0 while undefined
    client,      \* "undefined", "new", "open", "ended"
    hookPc,      \* position of the runner in the suite block
    casePc,      \* per case: position inside its body
    caseObs,     \* per case: the response its last query got
    caseResult,  \* per case: "pending", "pass", "fail"
    \* ---- case-level wrappers: one record of locals per invocation
    pc,          \* position inside the wrapper
    fn,          \* the body passed to the wrapper, with the payload it sends
    kind,        \* the backend family the wrapper provisions: "mock", "container"
    handle,      \* const mock / const container: handle, 0 before provisioning
    conn,        \* const client / const boss: "none", "new", "open", "ended"
    obs,         \* the response the body's last call got
    errorCaught, \* the body's local flag
    thrown,      \* the error the try block ended with, "none" if it returned
    outcome,     \* what the wrapper's promise settled to, "pending" before
    calls        \* per invocation: the cleanup calls made, in order

vars == <<block, concurrent, dbs, mock, client, hookPc, casePc, caseObs,
          caseResult, pc, fn, kind, handle, conn, obs, errorCaught, thrown, outcome,
          calls>>

suiteVars == <<mock, client, hookPc, casePc, caseObs, caseResult>>

wrapVars == <<pc, fn, kind, handle, conn, obs, errorCaught, thrown, outcome, calls>>

----------------------------------------------------------------------------
(* The backend as the tests use it: one relation `users`, one job table.   *)

\* `exists` tells whether the relation `users` was created; `users` are its rows.
FreshBackend == [running |-> TRUE, exists |-> FALSE, users |-> <<>>, jobs |-> <<>>]

Row(id, name, age) == [id |-> id, name |-> name, age |-> age]

Alice == Row(1, "Alice", 30)
Bob == Row(2, "Bob", 25)
Charlie == Row(3, "Charlie", 35)
Concurrent == Row(1, "Concurrent", 99)

RelationMissing == "relation \"users\" does not exist"
RelationExists == "relation \"users\" already exists"
DuplicateKey == "duplicate key value violates unique constraint \"users_pkey\""
ConnectionLost == "Connection terminated"

\* expect(err.message).toMatch(/relation.*does not exist/i)
MatchesRelationDoesNotExist(msg) == msg = RelationMissing

Rows(rs) == [ok |-> TRUE, rows |-> rs, err |-> ""]
Failure(msg) == [ok |-> FALSE, rows |-> <<>>, err |-> msg]
NoResponse == [ok |-> FALSE, rows |-> <<>>, err |-> "none yet"]

RECURSIVE InsertById(_, _)
InsertById(r, sorted) ==
    IF sorted = <<>> THEN <<r>>
    ELSE IF r.id <= Head(sorted).id THEN <<r>> \o sorted
    ELSE <<Head(sorted)>> \o InsertById(r, Tail(sorted))

RECURSIVE OrderById(_)
OrderById(rs) ==
    IF rs = <<>> THEN <<>> ELSE InsertById(Head(rs), OrderById(Tail(rs)))

RECURSIVE SumAge(_)
SumAge(rs) == IF rs = <<>> THEN 0 ELSE Head(rs).age + SumAge(Tail(rs))

RECURSIVE WhereAgeOver(_, _)
WhereAgeOver(rs, n) ==
    IF rs = <<>> THEN <<>>
    ELSE (IF Head(rs).age > n THEN <<[name |-> Head(rs).name]>> ELSE <<>>)
         \o WhereAgeOver(Tail(rs), n)

Abs(x) == IF x < 0 THEN -x ELSE x

\* AVG(age) is kept as the fraction sum/count; an empty relation gives NULL.
AvgAge(rs) == [sum |-> SumAge(rs), count |-> Len(rs)]

\* expect(Number(avg)).toBeCloseTo(30): |avg - 30| < 0.005; Number(null) is 0.
CloseTo(avg, expected) ==
    IF avg.count = 0 THEN Abs(expected) * 200 < 1
    ELSE Abs(avg.sum - expected * avg.count) * 200 < avg.count

\* The response of one statement on backend d through a session that is open
\* iff `open`.
Query(d, open, stmt) ==
    IF ~open \/ ~d.running THEN Failure(ConnectionLost)
    ELSE IF stmt.op = "CREATE" THEN
        IF ~d.exists THEN Rows(<<>>) ELSE Failure(RelationExists)
    ELSE IF ~d.exists THEN Failure(RelationMissing)
    ELSE IF stmt.op = "INSERT" THEN
        IF \E k \in 1..Len(d.users) : d.users[k].id = stmt.row.id
        THEN Failure(DuplicateKey) ELSE Rows(<<>>)
    ELSE IF stmt.op = "SELECT" THEN Rows(d.users)
    ELSE IF stmt.op = "SELECT_ORDER_BY_ID" THEN Rows(OrderById(d.users))
    ELSE IF stmt.op = "AVG" THEN Rows(<<[avg_age |-> AvgAge(d.users)]>>)
    ELSE Rows(WhereAgeOver(d.users, 30))

\* The backend after that statement.
Apply(d, open, stmt) ==
    IF ~Query(d, open, stmt).ok THEN d
    ELSE IF stmt.op = "CREATE" THEN [d EXCEPT !.exists = TRUE]
    ELSE IF stmt.op = "INSERT" THEN [d EXCEPT !.users = Append(@, stmt.row)]
    ELSE d

CreateUsers == [op |-> "CREATE"]
Insert(r) == [op |-> "INSERT", row |-> r]
SelectUsers == [op |-> "SELECT"]
SelectUsersOrdered == [op |-> "SELECT_ORDER_BY_ID"]
SelectAvgAge == [op |-> "AVG"]
SelectOver30 == [op |-> "OVER30"]

\* The "users must not exist" body shared by five cases: the query, the catch
\* with its message assertion, and the final expect(errorCaught).toBe(true).
AbsentCaught(resp) == ~resp.ok
\* Variant: the body without its final expect(errorCaught).toBe(true).
AbsentPassesUnchecked(resp) ==
    AbsentCaught(resp) => MatchesRelationDoesNotExist(resp.err)

AbsentPasses(resp) ==
    /\ AbsentCaught(resp) => MatchesRelationDoesNotExist(resp.err)
    /\ AbsentCaught(resp)

----------------------------------------------------------------------------
(* Suite-level fixture.                                                     *)

SuiteOpen == client = "open"

SuiteDb == dbs[mock]

\* Variant: the cases of the block written in the opposite order.
ScheduledLastFirst(c) ==
    /\ block = "suite"
    /\ hookPc = "cases"
    /\ casePc[c] # "done"
    /\ concurrent \/ \A b \in Cases : b > c => casePc[b] = "done"

\* The runner runs the cases one after another, in file order, unless it was
\* told to interleave them.
Scheduled(c) ==
    /\ block = "suite"
    /\ hookPc = "cases"
    /\ casePc[c] # "done"
    /\ concurrent \/ \A b \in Cases : b < c => casePc[b] = "done"

\* beforeAll: mock = await PostgresMock.create() / new PostgreSqlContainer().start()
BeforeAllCreate ==
    /\ block = "suite"
    /\ hookPc = "beforeAll_create"
    /\ \E ok \in BOOLEAN :
        IF ok
        THEN /\ dbs' = Append(dbs, FreshBackend)
             /\ mock' = Len(dbs) + 1
             /\ client' = "new"
             /\ hookPc' = "beforeAll_connect"
        ELSE /\ hookPc' = "afterAll_end"
             /\ UNCHANGED <<dbs, mock, client>>
    /\ UNCHANGED <<block, concurrent, casePc, caseObs, caseResult>>
    /\ UNCHANGED wrapVars

\* beforeAll: await client.connect(); a failed hook skips the cases
BeforeAllConnect ==
    /\ block = "suite"
    /\ hookPc = "beforeAll_connect"
    /\ \E ok \in BOOLEAN :
        IF ok
        THEN client' = "open" /\ hookPc' = "cases"
        ELSE client' = client /\ hookPc' = "afterAll_end"
    /\ UNCHANGED <<block, concurrent, dbs, mock, casePc, caseObs, caseResult>>
    /\ UNCHANGED wrapVars

\* The response the shared client gives to a statement.
SuiteQuery(stmt) == Query(SuiteDb, SuiteOpen, stmt)

\* One query of a case against the shared client; `next` is where the case
\* goes when its assertions on the response passed, otherwise the case fails.
SuiteStep(c, at, stmt, passed, next) ==
    /\ Scheduled(c)
    /\ casePc[c] = at
    /\ LET resp == SuiteQuery(stmt) IN
        /\ dbs' = [dbs EXCEPT ![mock] = Apply(@, SuiteOpen, stmt)]
        /\ caseObs' = [caseObs EXCEPT ![c] = resp]
        /\ IF passed
           THEN /\ casePc' = [casePc EXCEPT ![c] = next]
                /\ caseResult' = [caseResult EXCEPT ![c] =
                                    IF next = "done" THEN "pass" ELSE @]
           ELSE /\ casePc' = [casePc EXCEPT ![c] = "done"]
                /\ caseResult' = [caseResult EXCEPT ![c] = "fail"]
    /\ UNCHANGED <<block, concurrent, mock, client, hookPc>>
    /\ UNCHANGED wrapVars

Succeeds(resp) == resp.ok

\* it("should not have users table before creation")
Case1Query ==
    SuiteStep(1, "query", SelectUsers,
              AbsentPasses(SuiteQuery(SelectUsers)), "done")

\* it("should create tables, insert, query, and aggregate (simplified)")
Case2Create ==
    SuiteStep(2, "query", CreateUsers,
              Succeeds(SuiteQuery(CreateUsers)), "insert1")
Case2Insert1 ==
    SuiteStep(2, "insert1", Insert(Alice),
              Succeeds(SuiteQuery(Insert(Alice))), "insert2")
Case2Insert2 ==
    SuiteStep(2, "insert2", Insert(Bob),
              Succeeds(SuiteQuery(Insert(Bob))), "insert3")
\* Variant: the third INSERT left out of the case.
Case2Insert3Skipped ==
    SuiteStep(2, "insert3", SelectUsers,
              Succeeds(SuiteQuery(SelectUsers)), "selectAll")

Case2Insert3 ==
    SuiteStep(2, "insert3", Insert(Charlie),
              Succeeds(SuiteQuery(Insert(Charlie))), "selectAll")

AllUsersAsExpected(resp) ==
    /\ resp.ok
    /\ Len(resp.rows) = 3
    /\ resp.rows[1].name = "Alice"
    /\ resp.rows[2].name = "Bob"
    /\ resp.rows[3].name = "Charlie"

Case2SelectAll ==
    SuiteStep(2, "selectAll", SelectUsersOrdered,
              AllUsersAsExpected(SuiteQuery(SelectUsersOrdered)), "avg")

AvgAsExpected(resp) == resp.ok /\ CloseTo(resp.rows[1].avg_age, 30)

Case2Avg ==
    SuiteStep(2, "avg", SelectAvgAge,
              AvgAsExpected(SuiteQuery(SelectAvgAge)), "over30")

Over30AsExpected(resp) ==
    /\ resp.ok
    /\ Len(resp.rows) = 1
    /\ resp.rows[1].name = "Charlie"

Case2Over30 ==
    SuiteStep(2, "over30", SelectOver30,
              Over30AsExpected(SuiteQuery(SelectOver30)), "done")

\* it("should have users table after previous test (suite-level persistence)")
HasThreeRows(resp) == resp.ok /\ Len(resp.rows) = 3

Case3Query ==
    SuiteStep(3, "query", SelectUsers,
              HasThreeRows(SuiteQuery(SelectUsers)), "done")

\* the runner enters afterAll once every case has ended
CasesDone ==
    /\ block = "suite"
    /\ hookPc = "cases"
    /\ \A c \in Cases : casePc[c] = "done"
    /\ hookPc' = "afterAll_end"
    /\ UNCHANGED <<block, concurrent, dbs, mock, client, casePc, caseObs,
                   caseResult>>
    /\ UNCHANGED wrapVars

\* afterAll: await client.end(); on an undefined client the call throws
AfterAllEnd ==
    /\ block = "suite"
    /\ hookPc = "afterAll_end"
    /\ \E ok \in BOOLEAN :
        IF ok /\ client # "undefined"
        THEN client' = "ended" /\ hookPc' = "afterAll_destroy"
        ELSE client' = client /\ hookPc' = "done"
    /\ UNCHANGED <<block, concurrent, dbs, mock, casePc, caseObs, caseResult>>
    /\ UNCHANGED wrapVars

\* afterAll: mock.destroy() / await container.stop()
AfterAllDestroy ==
    /\ block = "suite"
    /\ hookPc = "afterAll_destroy"
    /\ \E ok \in BOOLEAN :
        IF ok /\ mock # 0
        THEN dbs' = [dbs EXCEPT ![mock].running = FALSE]
        ELSE dbs' = dbs
    /\ hookPc' = "done"
    /\ UNCHANGED <<block, concurrent, mock, client, casePc, caseObs,
                   caseResult>>
    /\ UNCHANGED wrapVars

SuiteNext ==
    \/ BeforeAllCreate
    \/ BeforeAllConnect
    \/ Case1Query
    \/ Case2Create
    \/ Case2Insert1
    \/ Case2Insert2
    \/ Case2Insert3
    \/ Case2SelectAll
    \/ Case2Avg
    \/ Case2Over30
    \/ Case3Query
    \/ CasesDone
    \/ AfterAllEnd
    \/ AfterAllDestroy

----------------------------------------------------------------------------
(* Case-level wrappers: withMockClient and withContainerClient.             *)

NoPayload == [hello |-> "none"]
NoBody == [body |-> "none", payload |-> NoPayload]
Body(b) == [body |-> b, payload |-> NoPayload]

\* The isolated describe block of either file; each defines its own wrapper,
\* so the invocations of one block all provision the same backend family.
Isolated == block \in {"isolated mock", "isolated container"}

\* The bodies the isolated block passes to its wrapper, and a body that throws.
IsolatedBodies ==
    {Body("absent"), Body("createAlice"), Body("create"), Body("raise")}

\* Variant: the backend kept in one place shared by every invocation, and
\* provisioned by the first of them only.
ProvisionShared(i, k, f, ok, next) ==
    /\ pc[i] = "call"
    /\ fn' = [fn EXCEPT ![i] = f]
    /\ kind' = [kind EXCEPT ![i] = k]
    /\ IF ok
       THEN /\ dbs' = IF dbs = <<>> THEN <<FreshBackend>> ELSE dbs
            /\ handle' = [handle EXCEPT ![i] = 1]
            /\ conn' = [conn EXCEPT ![i] = "new"]
            /\ pc' = [pc EXCEPT ![i] = next]
            /\ UNCHANGED outcome
       ELSE /\ outcome' = [outcome EXCEPT ![i] = "ProvisioningError"]
            /\ pc' = [pc EXCEPT ![i] = "done"]
            /\ UNCHANGED <<dbs, handle, conn>>
    /\ UNCHANGED <<block, concurrent, obs, errorCaught, thrown, calls>>
    /\ UNCHANGED suiteVars

\* const mock = await PostgresMock.create() and
\* const container = await new PostgreSqlContainer().start(): a new backend
\* with a handle of its own, or a rejection that leaves the wrapper at once.
Provision(i, k, f, ok, next) ==
    /\ pc[i] = "call"
    /\ fn' = [fn EXCEPT ![i] = f]
    /\ kind' = [kind EXCEPT ![i] = k]
    /\ IF ok
       THEN /\ dbs' = Append(dbs, FreshBackend)
            /\ handle' = [handle EXCEPT ![i] = Len(dbs) + 1]
            /\ conn' = [conn EXCEPT ![i] = "new"]
            /\ pc' = [pc EXCEPT ![i] = next]
            /\ UNCHANGED outcome
       ELSE /\ outcome' = [outcome EXCEPT ![i] = "ProvisioningError"]
            /\ pc' = [pc EXCEPT ![i] = "done"]
            /\ UNCHANGED <<dbs, handle, conn>>
    /\ UNCHANGED <<block, concurrent, obs, errorCaught, thrown, calls>>
    /\ UNCHANGED suiteVars

MockCreate(i) ==
    /\ block = "isolated mock"
    /\ \E f \in IsolatedBodies, ok \in BOOLEAN :
        Provision(i, "mock", f, ok, "connect")

ContainerStart(i) ==
    /\ block = "isolated container"
    /\ \E f \in IsolatedBodies, ok \in BOOLEAN :
        Provision(i, "container", f, ok, "connect")

\* await client.connect(), before the try block: a rejection leaves the
\* wrapper without entering try/finally.
Connect(i) ==
    /\ Isolated
    /\ pc[i] = "connect"
    /\ \E ok \in BOOLEAN :
        IF ok
        THEN /\ conn' = [conn EXCEPT ![i] = "open"]
             /\ pc' = [pc EXCEPT ![i] = "body"]
             /\ UNCHANGED outcome
        ELSE /\ outcome' = [outcome EXCEPT ![i] = "ConnectionError"]
             /\ pc' = [pc EXCEPT ![i] = "done"]
             /\ UNCHANGED conn
    /\ UNCHANGED <<block, concurrent, dbs, fn, kind, handle, obs, errorCaught,
                   thrown, calls>>
    /\ UNCHANGED suiteVars

\* The response the client of invocation i gives to a statement.
ClientQuery(i, stmt) == Query(dbs[handle[i]], conn[i] = "open", stmt)

\* One awaited query of a body; the body goes on to `next` when its
\* assertions on the response passed and otherwise throws `err` out of the try
\* block.
BodyStep(i, b, at, stmt, passed, next, err) ==
    /\ Isolated
    /\ fn[i].body = b
    /\ pc[i] = at
    /\ LET resp == ClientQuery(i, stmt) IN
        /\ dbs' = [dbs EXCEPT ![handle[i]] = Apply(@, conn[i] = "open", stmt)]
        /\ obs' = [obs EXCEPT ![i] = resp]
        /\ IF passed
           THEN /\ pc' = [pc EXCEPT ![i] = next]
                /\ UNCHANGED thrown
           ELSE /\ pc' = [pc EXCEPT ![i] = "finally"]
                /\ thrown' = [thrown EXCEPT ![i] = err]
    /\ UNCHANGED <<block, concurrent, fn, kind, handle, conn, outcome, calls>>
    /\ UNCHANGED suiteVars

\* What a body throws on a response it did not expect: the query's own
\* error, or the failed assertion on its rows.
QueryError(resp) == IF resp.ok THEN "AssertionError" ELSE resp.err

\* "should not have users table in a fresh mock / container"
BodyAbsent(i) ==
    /\ BodyStep(i, "absent", "body", SelectUsers,
                AbsentPasses(ClientQuery(i, SelectUsers)), "finally",
                "AssertionError")
    /\ errorCaught' = [errorCaught EXCEPT ![i] =
                          AbsentCaught(ClientQuery(i, SelectUsers))]

\* "should create table and see data only in this test"
BodyCreateAlice(i) ==
    /\ BodyStep(i, "createAlice", "body", CreateUsers,
                Succeeds(ClientQuery(i, CreateUsers)), "insert",
                QueryError(ClientQuery(i, CreateUsers)))
    /\ UNCHANGED errorCaught

BodyInsertAlice(i) ==
    /\ BodyStep(i, "createAlice", "insert", Insert(Alice),
                Succeeds(ClientQuery(i, Insert(Alice))), "select",
                QueryError(ClientQuery(i, Insert(Alice))))
    /\ UNCHANGED errorCaught

OneRow(resp) == resp.ok /\ Len(resp.rows) = 1

BodySelectAlice(i) ==
    /\ BodyStep(i, "createAlice", "select", SelectUsers,
                OneRow(ClientQuery(i, SelectUsers)), "finally",
                QueryError(ClientQuery(i, SelectUsers)))
    /\ UNCHANGED errorCaught

\* "concurrent: create and query users table"
BodyCreate(i) ==
    /\ BodyStep(i, "create", "body", CreateUsers,
                Succeeds(ClientQuery(i, CreateUsers)), "insert",
                QueryError(ClientQuery(i, CreateUsers)))
    /\ UNCHANGED errorCaught

BodyInsert(i) ==
    /\ BodyStep(i, "create", "insert", Insert(Concurrent),
                Succeeds(ClientQuery(i, Insert(Concurrent))), "select",
                QueryError(ClientQuery(i, Insert(Concurrent))))
    /\ UNCHANGED errorCaught

OneConcurrentRow(resp) ==
    /\ resp.ok
    /\ Len(resp.rows) = 1
    /\ resp.rows[1].name = "Concurrent"

BodySelect(i) ==
    /\ BodyStep(i, "create", "select", SelectUsers,
                OneConcurrentRow(ClientQuery(i, SelectUsers)), "finally",
                QueryError(ClientQuery(i, SelectUsers)))
    /\ UNCHANGED errorCaught

\* any body that ends by throwing
BodyRaise(i) ==
    /\ Isolated
    /\ fn[i].body = "raise"
    /\ pc[i] = "body"
    /\ thrown' = [thrown EXCEPT ![i] = "BodyError"]
    /\ pc' = [pc EXCEPT ![i] = "finally"]
    /\ UNCHANGED <<block, concurrent, dbs, fn, kind, handle, conn, obs,
                   errorCaught, outcome, calls>>
    /\ UNCHANGED suiteVars

\* Variant: a catch block in place of the finally block, the error dropped.
AfterFinallySwallowed(t) == "ok"

\* What the wrapper settles to once its finally block ran through.
AfterFinally(t) == IF t = "none" THEN "ok" ELSE t

\* Variant: the rejection of client.end() caught, the teardown run anyway.
FinallyEndThenTeardownAnyway(i) ==
    /\ Isolated
    /\ pc[i] = "finally"
    /\ calls' = [calls EXCEPT ![i] = Append(@, "client.end")]
    /\ \E ok \in BOOLEAN :
        conn' = [conn EXCEPT ![i] = IF ok THEN "ended" ELSE @]
    /\ pc' = [pc EXCEPT ![i] = "teardown"]
    /\ UNCHANGED <<block, concurrent, dbs, fn, kind, handle, obs, errorCaught,
                   thrown, outcome>>
    /\ UNCHANGED suiteVars

\* finally: await client.end(); a rejection leaves the finally block
FinallyEnd(i) ==
    /\ Isolated
    /\ pc[i] = "finally"
    /\ calls' = [calls EXCEPT ![i] = Append(@, "client.end")]
    /\ \E ok \in BOOLEAN :
        IF ok
        THEN /\ conn' = [conn EXCEPT ![i] = "ended"]
             /\ pc' = [pc EXCEPT ![i] = "teardown"]
             /\ UNCHANGED outcome
        ELSE /\ outcome' = [outcome EXCEPT ![i] = "EndError"]
             /\ pc' = [pc EXCEPT ![i] = "done"]
             /\ UNCHANGED conn
    /\ UNCHANGED <<block, concurrent, dbs, fn, kind, handle, obs, errorCaught,
                   thrown>>
    /\ UNCHANGED suiteVars

\* The last statement of a finally block: the backend's teardown call.
Teardown(i, call, ok) ==
    /\ calls' = [calls EXCEPT ![i] = Append(@, call)]
    /\ IF ok
       THEN /\ dbs' = [dbs EXCEPT ![handle[i]].running = FALSE]
            /\ outcome' = [outcome EXCEPT ![i] = AfterFinally(thrown[i])]
       ELSE /\ dbs' = dbs
            /\ outcome' = [outcome EXCEPT ![i] = "TeardownError"]
    /\ pc' = [pc EXCEPT ![i] = "done"]
    /\ UNCHANGED <<block, concurrent, fn, kind, handle, conn, obs, errorCaught,
                   thrown>>
    /\ UNCHANGED suiteVars

\* finally: mock.destroy()
MockDestroy(i) ==
    /\ Isolated
    /\ pc[i] = "teardown"
    /\ kind[i] = "mock"
    /\ \E ok \in BOOLEAN : Teardown(i, "mock.destroy", ok)

\* finally: await container.stop()
ContainerStop(i) ==
    /\ Isolated
    /\ pc[i] = "teardown"
    /\ kind[i] = "container"
    /\ \E ok \in BOOLEAN : Teardown(i, "container.stop", ok)

IsolatedNext ==
    \E i \in Invocations :
        \/ MockCreate(i)
        \/ ContainerStart(i)
        \/ Connect(i)
        \/ BodyAbsent(i)
        \/ BodyCreateAlice(i)
        \/ BodyInsertAlice(i)
        \/ BodySelectAlice(i)
        \/ BodyCreate(i)
        \/ BodyInsert(i)
        \/ BodySelect(i)
        \/ BodyRaise(i)
        \/ FinallyEnd(i)
        \/ MockDestroy(i)
        \/ ContainerStop(i)

----------------------------------------------------------------------------
(* The job queue over a backend: send, fetch, complete.                     *)

DemoJob == "demo-job"

HelloWorld == [hello |-> "world"]
OtherPayload == [hello |-> "again"]
Payloads == {HelloWorld, OtherPayload}

\* boss.send(name, data): a new job record, queued; its id is returned
SendId(d) == Len(d.jobs) + 1
Send(d, name, data) ==
    [d EXCEPT !.jobs = Append(@, [id |-> SendId(d), name |-> name,
                                  data |-> data, state |-> "queued"])]

Queued(d, name) ==
    {k \in 1..Len(d.jobs) : d.jobs[k].name = name /\ d.jobs[k].state = "queued"}

Oldest(ks) == CHOOSE k \in ks : \A m \in ks : k <= m

\* boss.fetch(name): the oldest queued job of the queue, if any, as an array
Fetched(d, name) ==
    IF Queued(d, name) = {} THEN <<>>
    ELSE <<[id |-> d.jobs[Oldest(Queued(d, name))].id,
            data |-> d.jobs[Oldest(Queued(d, name))].data]>>

Fetch(d, name) ==
    IF Queued(d, name) = {} THEN d
    ELSE [d EXCEPT !.jobs[Oldest(Queued(d, name))].state = "fetched"]

\* boss.complete(name, id): a fetched job of that queue and id is completed
Complete(d, name, id) ==
    [d EXCEPT !.jobs = [k \in 1..Len(d.jobs) |->
        IF /\ d.jobs[k].id = id
           /\ d.jobs[k].name = name
           /\ d.jobs[k].state = "fetched"
        THEN [d.jobs[k] EXCEPT !.state = "completed"]
        ELSE d.jobs[k]]]

----------------------------------------------------------------------------
(* Job-queue wrapper: withMockClientAndBoss.                                *)

BossBodies == {[body |-> "job", payload |-> p] : p \in Payloads}
                  \cup {Body("raise")}

\* const mock = await PostgresMock.create(); const boss = new PgBoss(...)
BossMockCreate(i) ==
    /\ block = "boss"
    /\ \E f \in BossBodies, ok \in BOOLEAN :
        Provision(i, "mock", f, ok, "start")

\* try: await boss.start(); a rejection goes to the finally block
BossStart(i) ==
    /\ block = "boss"
    /\ pc[i] = "start"
    /\ \E ok \in BOOLEAN :
        IF ok
        THEN /\ conn' = [conn EXCEPT ![i] = "open"]
             /\ pc' = [pc EXCEPT ![i] = "body"]
             /\ UNCHANGED thrown
        ELSE /\ thrown' = [thrown EXCEPT ![i] = "StartError"]
             /\ pc' = [pc EXCEPT ![i] = "finally"]
             /\ UNCHANGED conn
    /\ UNCHANGED <<block, concurrent, dbs, fn, kind, handle, obs, errorCaught,
                   outcome, calls>>
    /\ UNCHANGED suiteVars

\* Variant: the job sent to a queue of another name than the one fetched.
JobSendOtherQueue(i) ==
    /\ block = "boss"
    /\ fn[i].body = "job"
    /\ pc[i] = "body"
    /\ dbs' = [dbs EXCEPT ![handle[i]] = Send(@, "other-job", fn[i].payload)]
    /\ pc' = [pc EXCEPT ![i] = "fetch"]
    /\ UNCHANGED <<block, concurrent, fn, kind, handle, conn, obs, errorCaught,
                   thrown, outcome, calls>>
    /\ UNCHANGED suiteVars

\* const jobId = await boss.send("demo-job", payload); expect(jobId).toBeTruthy()
JobSend(i) ==
    /\ block = "boss"
    /\ fn[i].body = "job"
    /\ pc[i] = "body"
    /\ dbs' = [dbs EXCEPT ![handle[i]] = Send(@, DemoJob, fn[i].payload)]
    /\ pc' = [pc EXCEPT ![i] = "fetch"]
    /\ UNCHANGED <<block, concurrent, fn, kind, handle, conn, obs, errorCaught,
                   thrown, outcome, calls>>
    /\ UNCHANGED suiteVars

\* expect(jobs.length).toBeGreaterThan(0); expect(jobs[0].data).toEqual(payload)
JobsAsExpected(jobs, payload) ==
    /\ Len(jobs) > 0
    /\ jobs[1].data = payload

\* const jobs = await boss.fetch("demo-job") and the assertions on it
JobFetch(i) ==
    /\ block = "boss"
    /\ fn[i].body = "job"
    /\ pc[i] = "fetch"
    /\ LET jobs == Fetched(dbs[handle[i]], DemoJob) IN
        /\ dbs' = [dbs EXCEPT ![handle[i]] = Fetch(@, DemoJob)]
        /\ obs' = [obs EXCEPT ![i] = Rows(jobs)]
        /\ IF JobsAsExpected(jobs, fn[i].payload)
           THEN /\ pc' = [pc EXCEPT ![i] = "complete"]
                /\ UNCHANGED thrown
           ELSE /\ pc' = [pc EXCEPT ![i] = "finally"]
                /\ thrown' = [thrown EXCEPT ![i] = "AssertionError"]
    /\ UNCHANGED <<block, concurrent, fn, kind, handle, conn, errorCaught,
                   outcome, calls>>
    /\ UNCHANGED suiteVars

\* await boss.complete("demo-job", job.id)
JobComplete(i) ==
    /\ block = "boss"
    /\ fn[i].body = "job"
    /\ pc[i] = "complete"
    /\ dbs' = [dbs EXCEPT ![handle[i]] =
                  Complete(@, DemoJob, obs[i].rows[1].id)]
    /\ pc' = [pc EXCEPT ![i] = "finally"]
    /\ UNCHANGED <<block, concurrent, fn, kind, handle, conn, obs, errorCaught,
                   thrown, outcome, calls>>
    /\ UNCHANGED suiteVars

\* any body that ends by throwing
BossBodyRaise(i) ==
    /\ block = "boss"
    /\ fn[i].body = "raise"
    /\ pc[i] = "body"
    /\ thrown' = [thrown EXCEPT ![i] = "BodyError"]
    /\ pc' = [pc EXCEPT ![i] = "finally"]
    /\ UNCHANGED <<block, concurrent, dbs, fn, kind, handle, conn, obs,
                   errorCaught, outcome, calls>>
    /\ UNCHANGED suiteVars

\* finally: await boss.stop(), whether or not start() resolved
StopCall(i) == IF conn[i] = "open" THEN "boss.stop" ELSE "boss.stop unstarted"

BossStop(i) ==
    /\ block = "boss"
    /\ pc[i] = "finally"
    /\ calls' = [calls EXCEPT ![i] = Append(@, StopCall(i))]
    /\ \E ok \in BOOLEAN :
        IF ok
        THEN /\ conn' = [conn EXCEPT ![i] = IF @ = "open" THEN "ended" ELSE @]
             /\ pc' = [pc EXCEPT ![i] = "teardown"]
             /\ UNCHANGED outcome
        ELSE /\ outcome' = [outcome EXCEPT ![i] = "StopError"]
             /\ pc' = [pc EXCEPT ![i] = "done"]
             /\ UNCHANGED conn
    /\ UNCHANGED <<block, concurrent, dbs, fn, kind, handle, obs, errorCaught,
                   thrown>>
    /\ UNCHANGED suiteVars

\* finally: mock.destroy()
BossMockDestroy(i) ==
    /\ block = "boss"
    /\ pc[i] = "teardown"
    /\ \E ok \in BOOLEAN : Teardown(i, "mock.destroy", ok)

BossNext ==
    \E i \in Invocations :
        \/ BossMockCreate(i)
        \/ BossStart(i)
        \/ JobSend(i)
        \/ JobFetch(i)
        \/ JobComplete(i)
        \/ BossBodyRaise(i)
        \/ BossStop(i)
        \/ BossMockDestroy(i)

----------------------------------------------------------------------------
InitCommon ==
    /\ dbs = <<>>
    /\ mock = 0
    /\ client = "undefined"
    /\ hookPc = "beforeAll_create"
    /\ casePc = [c \in Cases |-> "query"]
    /\ caseObs = [c \in Cases |-> NoResponse]
    /\ caseResult = [c \in Cases |-> "pending"]
    /\ pc = [i \in Invocations |-> "call"]
    /\ fn = [i \in Invocations |-> NoBody]
    /\ kind = [i \in Invocations |-> "none"]
    /\ handle = [i \in Invocations |-> 0]
    /\ conn = [i \in Invocations |-> "none"]
    /\ obs = [i \in Invocations |-> NoResponse]
    /\ errorCaught = [i \in Invocations |-> FALSE]
    /\ thrown = [i \in Invocations |-> "none"]
    /\ outcome = [i \in Invocations |-> "pending"]
    /\ calls = [i \in Invocations |-> <<>>]

Init ==
    /\ block \in {"suite", "isolated mock", "isolated container", "boss"}
    /\ concurrent = FALSE
    /\ InitCommon

Next == SuiteNext \/ IsolatedNext \/ BossNext

\* The suite block with its three cases interleaved by the runner.
InitConcurrentSuite ==
    /\ block = "suite"
    /\ concurrent = TRUE
    /\ InitCommon

ConcurrentSuiteSpec == InitConcurrentSuite /\ [][SuiteNext]_vars

Spec == Init /\ [][Next]_vars

----------------------------------------------------------------------------
(* Properties.                                                              *)

TeardownCalls == {"mock.destroy", "container.stop"}

Connected(i) == conn[i] \in {"open", "ended"}

\* The wrapper of invocation i went through its body and settled.
RanThrough(i) == pc[i] = "done" /\ calls[i] # <<>>

Called(i, cs) == \E k \in 1..Len(calls[i]) : calls[i][k] \in cs

\* C1: whenever provisioning and connecting succeeded, the settled wrapper
\* has called client.end and then the backend's teardown, however the body
\* ended.
C1_CleanupAfterEveryBodyExit ==
    \A i \in Invocations :
        (Isolated /\ pc[i] = "done" /\ Connected(i)) =>
            /\ Len(calls[i]) = 2
            /\ calls[i][1] = "client.end"
            /\ calls[i][2] \in TeardownCalls

\* C2: no backend is torn down while the client bound to it is open, in the
\* suite fixture and in every wrapper; a teardown call is the second cleanup
\* call, after the close of the client.
C2_ClientClosedBeforeTeardown ==
    /\ (mock # 0 /\ ~dbs[mock].running) => client = "ended"
    /\ \A i \in Invocations :
        /\ (handle[i] # 0 /\ ~dbs[handle[i]].running) => conn[i] # "open"
        /\ \A k \in 1..Len(calls[i]) :
            calls[i][k] \in TeardownCalls =>
                k = 2 /\ calls[i][1] \notin TeardownCalls /\ conn[i] # "open"

C2_Witness ==
    \E i \in Invocations :
        /\ Isolated
        /\ handle[i] # 0
        /\ ~dbs[handle[i]].running
        /\ calls[i] = <<"client.end", "container.stop">>
        /\ conn[i] = "ended"

AfterBody(i) == pc[i] \in {"finally", "teardown"} \/ RanThrough(i)

\* C3: two wrapper invocations never hold the same backend, so whatever the
\* interleaving a body that expects no `users` relation gets "relation does
\* not exist" and a body that created `users` reads back its own single row.
C3_CaseScopedIsolation ==
    Isolated =>
        /\ \A i, j \in Invocations :
            (i # j /\ handle[i] # 0 /\ handle[j] # 0) => handle[i] # handle[j]
        /\ \A i \in Invocations :
            (fn[i].body = "absent" /\ AfterBody(i)) =>
                obs[i] = Failure(RelationMissing)
        /\ \A i \in Invocations :
            (fn[i].body = "create" /\ AfterBody(i)) =>
                obs[i] = Rows(<<Concurrent>>) /\ thrown[i] = "none"
        /\ \A i \in Invocations :
            (fn[i].body = "createAlice" /\ AfterBody(i)) =>
                obs[i] = Rows(<<Alice>>) /\ thrown[i] = "none"

C3_Witness ==
    \E i, j \in Invocations :
        /\ Isolated
        /\ fn[i].body = "create"
        /\ pc[i] = "select"
        /\ dbs[handle[i]].exists
        /\ dbs[handle[i]].users = <<Concurrent>>
        /\ fn[j].body = "absent"
        /\ pc[j] = "finally"
        /\ handle[j] > handle[i]
        /\ obs[j] = Failure(RelationMissing)

\* C4: a settled wrapper has called the teardown of the backend it
\* provisioned and the close of the client it connected, whichever step
\* failed.
C4_AcquiredIsCleanedUp ==
    \A i \in Invocations :
        (Isolated /\ pc[i] = "done") =>
            /\ handle[i] # 0 => Called(i, TeardownCalls)
            /\ Connected(i) => Called(i, {"client.end"})

\* C5 as stated: the wrapper settles to the body's outcome for every outcome
\* of the cleanup steps.
C5_BodyOutcomePropagatedAlways ==
    \A i \in Invocations :
        (Isolated /\ RanThrough(i)) =>
            outcome[i] = (IF thrown[i] = "none" THEN "ok" ELSE thrown[i])

\* C5 amended: the wrapper settles to the body's outcome when both cleanup
\* steps succeed; when client.end() or the teardown rejects, it settles to
\* that rejection instead, whatever the body did.
C5_BodyOutcomePropagatedUnlessCleanupFails ==
    \A i \in Invocations :
        (Isolated /\ RanThrough(i)) =>
            outcome[i] =
                IF conn[i] # "ended" THEN "EndError"
                ELSE IF dbs[handle[i]].running THEN "TeardownError"
                ELSE IF thrown[i] = "none" THEN "ok"
                ELSE thrown[i]

C5_Witness ==
    \E i \in Invocations :
        /\ Isolated
        /\ RanThrough(i)
        /\ thrown[i] = "BodyError"
        /\ outcome[i] = "BodyError"
        /\ ~dbs[handle[i]].running

\* C6: run in file order, the cases share the one backend and client of
\* beforeAll, which stay up until afterAll: the first case finds no `users`
\* relation, the second passes, and the third reads exactly the three rows
\* the second left.
C6_SuiteStatePersists ==
    (block = "suite" /\ ~concurrent) =>
        /\ Len(dbs) <= 1
        /\ hookPc = "cases" =>
            mock = 1 /\ dbs[mock].running /\ client = "open"
        /\ casePc[1] = "done" => caseObs[1] = Failure(RelationMissing)
        /\ casePc[2] = "done" =>
            /\ caseResult[2] = "pass"
            /\ dbs[mock].users = <<Alice, Bob, Charlie>>
        /\ casePc[3] = "done" =>
            /\ caseObs[3] = Rows(<<Alice, Bob, Charlie>>)
            /\ caseResult[3] = "pass"

C6_Witness ==
    /\ block = "suite"
    /\ hookPc = "cases"
    /\ caseResult = [c \in Cases |-> "pass"]
    /\ Len(caseObs[3].rows) = 3

\* C7: with the cases interleaved, whether a case passes is decided by where
\* its query falls among the statements of the creating case: the first case
\* fails exactly when `users` already exists, the third passes exactly when
\* all three rows are already there.
C7_OutcomeDependsOnInterleaving ==
    [][/\ (casePc[1] # "done" /\ casePc'[1] = "done") =>
            (caseResult'[1] = "fail" <=> dbs[mock].exists)
       /\ (casePc[3] # "done" /\ casePc'[3] = "done") =>
            (caseResult'[3] = "pass" <=> Len(dbs[mock].users) = 3)]_vars

C7_Witness ==
    /\ concurrent
    /\ caseResult[1] = "fail"
    /\ caseObs[1].ok
    /\ caseResult[2] = "pass"
    /\ caseResult[3] = "fail"
    /\ caseObs[3].ok
    /\ Len(caseObs[3].rows) < 3

JobBody(i) == block = "boss" /\ fn[i].body = "job"

JobOf(i) == dbs[handle[i]].jobs[1]

\* The body ran: boss.start() resolved and the try block was left.
JobRan(i) == AfterBody(i) /\ conn[i] # "new"

\* What holds of a job body at each of its positions.
JobAsExpected(i) ==
    /\ pc[i] \in {"fetch", "complete"} \/ JobRan(i) =>
        /\ Len(dbs[handle[i]].jobs) = 1
        /\ JobOf(i).data = fn[i].payload
    /\ pc[i] = "fetch" => JobOf(i).state = "queued"
    /\ pc[i] = "complete" =>
        /\ JobOf(i).state = "fetched"
        /\ obs[i].rows = <<[id |-> JobOf(i).id, data |-> fn[i].payload]>>
    /\ JobRan(i) =>
        /\ JobOf(i).state = "completed"
        /\ thrown[i] = "none"

LifecycleSteps == {<<"queued", "fetched">>, <<"fetched", "completed">>}

\* C8: on the fresh queue of a wrapper invocation the fetch after a send
\* returns the job sent, with the payload sent, completing it succeeds, and
\* a job changes state only from queued to fetched and from fetched to
\* completed.
C8_JobLifecycle ==
    [][/\ \A i \in Invocations : JobBody(i)' => JobAsExpected(i)'
       /\ \A h \in 1..Len(dbs) : \A k \in 1..Len(dbs[h].jobs) :
            \/ dbs'[h].jobs[k] = dbs[h].jobs[k]
            \/ /\ <<dbs[h].jobs[k].state, dbs'[h].jobs[k].state>>
                      \in LifecycleSteps
               /\ dbs'[h].jobs[k].id = dbs[h].jobs[k].id
               /\ dbs'[h].jobs[k].data = dbs[h].jobs[k].data]_vars

C8_Witness ==
    \E i \in Invocations :
        /\ JobBody(i)
        /\ pc[i] = "finally"
        /\ JobRan(i)
        /\ fn[i].payload = HelloWorld
        /\ JobOf(i).state = "completed"
        /\ obs[i].rows[1].data = HelloWorld

\* C9: on a backend with no schema yet the query of `users` ends in
\* "relation does not exist" and returns no rows, in the first case of the
\* suite and in every wrapper invocation, and the case passes only with
\* errorCaught set.
C9_UndefinedRelationIsAnError ==
    /\ (block = "suite" /\ ~concurrent /\ casePc[1] = "done") =>
        /\ ~caseObs[1].ok
        /\ caseObs[1].rows = <<>>
        /\ MatchesRelationDoesNotExist(caseObs[1].err)
        /\ caseResult[1] = "pass"
    /\ \A i \in Invocations :
        (Isolated /\ fn[i].body = "absent" /\ AfterBody(i)) =>
            /\ ~obs[i].ok
            /\ obs[i].rows = <<>>
            /\ MatchesRelationDoesNotExist(obs[i].err)
            /\ thrown[i] = "none" <=> errorCaught[i]
            /\ errorCaught[i]

C9_Witness ==
    /\ block = "suite"
    /\ casePc[1] = "done"
    /\ caseResult[1] = "pass"
    /\ caseObs[1] = Failure(RelationMissing)

\* C10: once the emulator exists the settled job-queue wrapper has called
\* mock.destroy, and boss.stop is never called on a queue that did not start.
C10_EmulatorDestroyedOnEveryExit ==
    \A i \in Invocations :
        block = "boss" =>
            /\ ~Called(i, {"boss.stop unstarted"})
            /\ (pc[i] = "done" /\ handle[i] # 0) => Called(i, {"mock.destroy"})

====
